---- MODULE Spec2Model ----
(***************************************************************************)
(* Model of oxr.asynchronous.client.Client: the seven public coroutines,   *)
(* the shared _get coroutine and the module function _encode_params.       *)
(*                                                                         *)
(* Text is a sequence of one-character strings, so that joining and        *)
(* formatting are computed and not assumed.  A Python value is a record    *)
(* tagged with its type: None, a str, a bool, a number or a list of str.   *)
(* A dict is a function from its keys to such values.                      *)
(***************************************************************************)
EXTENDS Integers, Sequences, FiniteSets, TLC

VARIABLES
    _app_id,    \* self._app_id: the application identifier of the client
    _base,      \* self._base: the default base currency of the client
    pc,         \* per call: where the coroutine stands
    call,       \* per call: the public coroutine called and its arguments
    request,    \* per call: locals of _get (endpoint, path_params, url, params)
    session,    \* per call: the ClientSession the call created (0: none yet)
    sessions,   \* every ClientSession ever created: "open" or "closed"
    log,        \* the HTTP GETs put on the network, in order
    response,   \* per call: the response bound by "as response"
    result      \* per call: what the caller's await produced

vars == <<_app_id, _base, pc, call, request, session, sessions, log, response, result>>

----------------------------------------------------------------------------
(* Bounds *)

\* Calls of the client that may be in flight at once.
MaxCalls == 2
\* Longest symbols sequence a caller passes.
MaxSymbols == 2

Calls == 1 .. MaxCalls

----------------------------------------------------------------------------
(* Python values *)

None == [t |-> "none"]
Str(s) == [t |-> "str", v |-> s]
Bool(b) == [t |-> "bool", v |-> b]
Num(n) == [t |-> "num", v |-> n]
List(l) == [t |-> "list", v |-> l]

\* Python truth value of an object, as the operator `or` tests it.
Truthy(x) ==
    CASE x.t = "none" -> FALSE
      [] x.t = "str" -> x.v # <<>>
      [] x.t = "bool" -> x.v
      [] x.t = "num" -> x.v # 0
      [] x.t = "list" -> x.v # <<>>

\* Faulty variant of Or: the right operand whatever the left one is.
OrMutantAlwaysDefault(a, b) == b
\* a or b
Or(a, b) == IF Truthy(a) THEN a ELSE b

\* Characters of the literals the code writes.
TrueText == <<"t", "r", "u", "e">>
FalseText == <<"f", "a", "l", "s", "e">>
Comma == <<",">>

\* sep.join(parts)
RECURSIVE Join(_, _)
Join(sep, parts) ==
    IF parts = <<>> THEN <<>>
    ELSE IF Len(parts) = 1 THEN Head(parts)
    ELSE Head(parts) \o sep \o Join(sep, Tail(parts))

\* One decimal digit as a character.
DigitChar(d) == <<"0", "1", "2", "3", "4", "5", "6", "7", "8", "9">>[d + 1]

\* n written in decimal, zero-padded on the left to at least w characters.
RECURSIVE Pad(_, _)
Pad(n, w) ==
    IF n < 10 /\ w <= 1 THEN <<DigitChar(n)>>
    ELSE Pad(n \div 10, w - 1) \o <<DigitChar(n % 10)>>

\* Faulty variant of isoformat: the fields without their leading zeros.
isoformatMutantUnpadded(d) ==
    Pad(d.year, 1) \o <<"-">> \o Pad(d.month, 1) \o <<"-">> \o Pad(d.day, 1)
\* datetime.date.isoformat(): YYYY-MM-DD
isoformat(d) ==
    Pad(d.year, 4) \o <<"-">> \o Pad(d.month, 2) \o <<"-">> \o Pad(d.day, 2)

\* datetime.datetime.isoformat() of a naive datetime: the date, "T", HH:MM:SS
\* and, only when the microsecond is not 0, "." and six digits.
datetime_isoformat(d) ==
    isoformat(d) \o <<"T">>
        \o Pad(d.hour, 2) \o <<":">> \o Pad(d.minute, 2) \o <<":">> \o Pad(d.second, 2)
        \o (IF d.microsecond = 0 THEN <<>> ELSE <<".">> \o Pad(d.microsecond, 6))

----------------------------------------------------------------------------
(* _encode_params *)

\* Faulty variant of encode_value: `== True` and `== False`, which 1 and 0
\* satisfy too.
encode_valueMutantEquality(value) ==
    IF value.t = "bool" \/ (value.t = "num" /\ value.v \in {0, 1})
    THEN (IF Truthy(value) THEN Str(TrueText) ELSE Str(FalseText))
    ELSE value
\* The comprehension's value expression.  `is True` and `is False` are
\* identity tests against the two bool singletons: 1 and 0 are not them.
encode_value(value) ==
    IF value.t = "bool" /\ value.v = TRUE THEN Str(TrueText)
    ELSE IF value.t = "bool" /\ value.v = FALSE THEN Str(FalseText)
    ELSE value

_encode_params(params) == [key \in DOMAIN params |-> encode_value(params[key])]

\* Faulty variant of merge_app_id: the caller's parameters alone.
merge_app_idMutantOmitted(app_id, query_params) == query_params
\* {"app_id": self._app_id, **query_params}: a later key replaces an earlier one.
merge_app_id(app_id, query_params) == query_params @@ ("app_id" :> Str(app_id))

----------------------------------------------------------------------------
(* Inputs *)

USD == <<"U", "S", "D">>
EUR == <<"E", "U", "R">>

\* Application identifiers and default base currencies a client is built with.
AppIds == {<<"k", "1">>, <<"k", "2">>}
Bases == {USD, EUR}

\* base: str | None.  The empty str is a str.
BaseArgs == {None, Str(<<>>), Str(EUR)}

\* symbols: Iterable[Currency] | None.
SymbolSeqs == UNION {[1 .. n -> {USD, EUR}] : n \in 0 .. MaxSymbols}
SymbolsArgs == {None} \cup {List(l) : l \in SymbolSeqs}

Dates ==
    { [year |-> 2024, month |-> 1, day |-> 15],
      [year |-> 987, month |-> 12, day |-> 5] }

DateTimes ==
    { [year |-> 2024, month |-> 1, day |-> 15,
       hour |-> 9, minute |-> 30, second |-> 0, microsecond |-> 0],
      [year |-> 2024, month |-> 1, day |-> 15,
       hour |-> 23, minute |-> 5, second |-> 59, microsecond |-> 250] }

Periods == {<<"1", "m">>, <<"1", "d">>}

\* amount: float.  0 and 1 are the numbers that compare equal to False and True.
Amounts == {0, 1, 25}

----------------------------------------------------------------------------
(* The public coroutines' query parameters *)

\* Faulty variant of with_symbols: `if symbols:`, which an empty sequence
\* fails.
with_symbolsMutantTruthy(params, symbols) ==
    IF Truthy(symbols)
    THEN ("symbols" :> Str(Join(Comma, symbols.v))) @@ params
    ELSE params
\* if symbols is not None: params["symbols"] = ",".join(symbols)
with_symbols(params, symbols) ==
    IF symbols # None
    THEN ("symbols" :> Str(Join(Comma, symbols.v))) @@ params
    ELSE params

latest_params(base, symbols, show_alternative) ==
    with_symbols(
        ("app_id" :> Str(_app_id))
            @@ ("base" :> Or(base, Str(_base)))
            @@ ("show_alternative" :> Bool(show_alternative)),
        symbols)

historical_params(base, symbols, show_alternative) ==
    with_symbols(
        ("base" :> Or(base, Str(_base)))
            @@ ("show_alternative" :> Bool(show_alternative)),
        symbols)

convert_params(amount, from_, to) ==
    ("from" :> Str(from_)) @@ ("to" :> Str(to)) @@ ("amount" :> Num(amount))

time_series_params(start, end, symbols, base, show_alternative) ==
    with_symbols(
        ("base" :> Or(base, Str(_base)))
            @@ ("start" :> Str(isoformat(start)))
            @@ ("end" :> Str(isoformat(end)))
            @@ ("show_alternative" :> Bool(show_alternative)),
        symbols)

ohlc_params(start_time, period, base, symbols, show_alternative) ==
    with_symbols(
        ("base" :> Or(base, Str(_base)))
            @@ ("start_time" :> Str(datetime_isoformat(start_time)))
            @@ ("period" :> Str(period))
            @@ ("show_alternative" :> Bool(show_alternative)),
        symbols)

----------------------------------------------------------------------------
(* _get, up to its first suspension *)

\* BaseClient._prepare_url: the endpoint's path template with the path
\* segments put into its slots in order.
_prepare_url(endpoint, path_params) ==
    [ template |-> endpoint,
      segments |-> IF path_params = None THEN <<>> ELSE path_params.v ]

NoRequest == [endpoint |-> "none"]
NoResponse == [status |-> 0]
Pending == [kind |-> "pending"]

\* _get runs without suspending until session.get() awaits the network: it
\* prepares the URL, creates a ClientSession of its own, encodes the merged
\* parameters and puts the GET on the network.
_get(c, endpoint, query_params, path_params) ==
    LET url == _prepare_url(endpoint, path_params)
        sid == Len(sessions) + 1
        params == _encode_params(merge_app_id(_app_id, query_params))
    IN  /\ session' = [session EXCEPT ![c] = sid]
        /\ sessions' = Append(sessions, "open")
        /\ request' = [request EXCEPT ![c] =
                [ endpoint |-> endpoint, path_params |-> path_params, url |-> url,
                  query_params |-> query_params, params |-> params ]]
        /\ log' = Append(log, [conn |-> sid, url |-> url, params |-> params])
        /\ pc' = [pc EXCEPT ![c] = "get"]
        /\ UNCHANGED <<_app_id, _base, response, result>>

currencies(c) ==
    /\ pc[c] = "idle"
    /\ call' = [call EXCEPT ![c] = [op |-> "currencies"]]
    /\ _get(c, "currencies", <<>>, None)

latest(c, base, symbols, show_alternative) ==
    /\ pc[c] = "idle"
    /\ call' = [call EXCEPT ![c] =
            [ op |-> "latest", base |-> base, symbols |-> symbols,
              show_alternative |-> show_alternative ]]
    /\ _get(c, "latest", latest_params(base, symbols, show_alternative), None)

historical(c, date, base, symbols, show_alternative) ==
    /\ pc[c] = "idle"
    /\ call' = [call EXCEPT ![c] =
            [ op |-> "historical", date |-> date, base |-> base, symbols |-> symbols,
              show_alternative |-> show_alternative ]]
    /\ _get(c, "historical", historical_params(base, symbols, show_alternative),
            List(<<isoformat(date)>>))

convert(c, amount, from_, to) ==
    /\ pc[c] = "idle"
    /\ call' = [call EXCEPT ![c] =
            [op |-> "convert", amount |-> amount, from_ |-> from_, to |-> to]]
    /\ _get(c, "convert", convert_params(amount, from_, to), None)

time_series(c, start, end, symbols, base, show_alternative) ==
    /\ pc[c] = "idle"
    /\ call' = [call EXCEPT ![c] =
            [ op |-> "time_series", start |-> start, end |-> end, base |-> base,
              symbols |-> symbols, show_alternative |-> show_alternative ]]
    /\ _get(c, "time-series",
            time_series_params(start, end, symbols, base, show_alternative), None)

ohlc(c, start_time, period, base, symbols, show_alternative) ==
    /\ pc[c] = "idle"
    /\ call' = [call EXCEPT ![c] =
            [ op |-> "ohlc", start_time |-> start_time, period |-> period,
              base |-> base, symbols |-> symbols,
              show_alternative |-> show_alternative ]]
    /\ _get(c, "ohlc",
            ohlc_params(start_time, period, base, symbols, show_alternative), None)

usage(c) ==
    /\ pc[c] = "idle"
    /\ call' = [call EXCEPT ![c] = [op |-> "usage"]]
    /\ _get(c, "usage", <<>>, None)

----------------------------------------------------------------------------
(* The response *)

Statuses == {200, 401, 500}
ContentTypes == {"application/json", "text/html"}
BodyKinds == {"json", "garbage", "blank"}

\* The GET that was put on connection s.
Sent(s) == CHOOSE g \in {log[i] : i \in DOMAIN log} : g.conn = s

\* What the server answers on connection s: a JSON document (it names the
\* URL it answers), bytes that are no JSON document, or nothing but blanks.
Body(s, kind) ==
    IF kind = "json" THEN [k |-> "json", doc |-> [answers |-> Sent(s).url, conn |-> s]]
    ELSE [k |-> kind]

Response(s, status, ctype, kind) ==
    [conn |-> s, status |-> status, ctype |-> ctype, body |-> Body(s, kind)]

\* Exceptions, by class.
ClientResponseError(status) == [type |-> "ClientResponseError", status |-> status]
ContentTypeError == [type |-> "ContentTypeError"]
ClientConnectionError == [type |-> "ClientConnectionError"]
JSONDecodeError == [type |-> "JSONDecodeError"]
CancelledError == [type |-> "CancelledError"]
NoError == [type |-> "none"]

\* Faulty variant of raise_for_status: only a 5xx status raises.
raise_for_statusMutantServerOnly(r) ==
    IF r.status >= 500 THEN ClientResponseError(r.status) ELSE NoError
\* response.raise_for_status(): raises ClientResponseError carrying the
\* status when the status is 400 or more, and returns otherwise.
raise_for_status(r) ==
    IF r.status >= 400 THEN ClientResponseError(r.status) ELSE NoError

\* Faulty variant of propagate: the exception is caught and None returned.
propagateMutantSwallow(e) == [kind |-> "return", value |-> None]
\* An exception leaves _get and the public coroutine as it is: neither has a
\* try statement.
propagate(e) == [kind |-> "raise", error |-> e]

\* await response.json(), once the body is read: every way it can end.
\* ContentTypeError when the Content-Type is not application/json; otherwise
\* the decoder's document, or its JSONDecodeError for bytes that are no JSON
\* document.  An empty or blank body is returned as None by the library
\* releases that strip the body first, and is a JSONDecodeError in the
\* others: the source pins no release, so both can happen.
json(r) ==
    IF r.ctype # "application/json" THEN {propagate(ContentTypeError)}
    ELSE IF r.body.k = "blank"
         THEN {[kind |-> "return", value |-> None], propagate(JSONDecodeError)}
    ELSE IF r.body.k = "garbage" THEN {propagate(JSONDecodeError)}
    ELSE {[kind |-> "return", value |-> [t |-> "json", v |-> r.body.doc]]}

\* Faulty variant of bind_response: the response is kept in one place that
\* all calls share.
bind_responseMutantShared(frames, c, r) == [x \in DOMAIN frames |-> r]
\* "as response": the response is a local of the call's own _get frame.
bind_response(frames, c, r) == [frames EXCEPT ![c] = r]

\* Faulty variant of aexit: the session is closed only after a return.
aexitMutantOnReturnOnly(all, s, outcome) ==
    IF outcome.kind = "return" THEN [all EXCEPT ![s] = "closed"] ELSE all
\* Leaving "async with": the response is released and the session of the
\* call is closed, whether the block returned or raised.
aexit(all, s, outcome) == [all EXCEPT ![s] = "closed"]

\* The coroutine ends with `outcome`, through the "async with" exit.
Finish(c, outcome) ==
    /\ sessions' = aexit(sessions, session[c], outcome)
    /\ result' = [result EXCEPT ![c] = outcome]
    /\ pc' = [pc EXCEPT ![c] = "done"]
    /\ UNCHANGED <<_app_id, _base, call, request, session, log>>

\* session.get() resumes with the response's status and headers.  A failure
\* status raises at once; otherwise response.json() awaits the body.
Respond(c, status, ctype, kind) ==
    /\ pc[c] = "get"
    /\ LET r == Response(session[c], status, ctype, kind)
           e == raise_for_status(r)
       IN  /\ response' = bind_response(response, c, r)
           /\ IF e # NoError
              THEN Finish(c, propagate(e))
              ELSE /\ pc' = [pc EXCEPT ![c] = "json"]
                   /\ UNCHANGED <<_app_id, _base, call, request, session,
                                  sessions, log, result>>

\* The body has arrived: response.json() resumes and _get returns or raises.
ReadJson(c) ==
    /\ pc[c] = "json"
    /\ \E outcome \in json(response[c]) : Finish(c, outcome)
    /\ UNCHANGED response

\* The transport fails while the call is suspended on it: no connection, or
\* the connection is lost before the body is complete.
ConnectFail(c) ==
    /\ pc[c] \in {"get", "json"}
    /\ Finish(c, propagate(ClientConnectionError))
    /\ UNCHANGED response

\* The caller cancels the task while the call is suspended: CancelledError
\* is raised at the await.
Cancel(c) ==
    /\ pc[c] \in {"get", "json"}
    /\ Finish(c, propagate(CancelledError))
    /\ UNCHANGED response

----------------------------------------------------------------------------
(* Specifications *)

\* The client after construction: its configuration is set, nothing is in
\* flight.
Init ==
    /\ _app_id \in AppIds
    /\ _base \in Bases
    /\ pc = [c \in Calls |-> "idle"]
    /\ call = [c \in Calls |-> [op |-> "none"]]
    /\ request = [c \in Calls |-> NoRequest]
    /\ session = [c \in Calls |-> 0]
    /\ sessions = <<>>
    /\ log = <<>>
    /\ response = [c \in Calls |-> NoResponse]
    /\ result = [c \in Calls |-> Pending]

\* One caller, every argument and every response.
Next ==
    \/ currencies(1)
    \/ \E b \in BaseArgs, s \in SymbolsArgs, a \in BOOLEAN : latest(1, b, s, a)
    \/ \E d \in Dates, b \in BaseArgs, s \in SymbolsArgs, a \in BOOLEAN :
            historical(1, d, b, s, a)
    \/ \E n \in Amounts, f \in {USD, EUR}, t \in {USD, EUR} : convert(1, n, f, t)
    \/ \E d \in Dates, e \in Dates, s \in SymbolsArgs, b \in BaseArgs, a \in BOOLEAN :
            time_series(1, d, e, s, b, a)
    \/ \E d \in DateTimes, p \in Periods, b \in BaseArgs, s \in SymbolsArgs,
          a \in BOOLEAN : ohlc(1, d, p, b, s, a)
    \/ usage(1)
    \/ \E st \in Statuses, ct \in ContentTypes, k \in BodyKinds : Respond(1, st, ct, k)
    \/ ReadJson(1)
    \/ ConnectFail(1)
    \/ Cancel(1)

Spec == Init /\ [][Next]_vars

\* Any number of callers up to MaxCalls, suspended and resumed in any order.
NextConcurrent ==
    \E c \in Calls :
        \/ usage(c)
        \/ latest(c, None, None, FALSE)
        \/ historical(c, [year |-> 2024, month |-> 1, day |-> 15], None, None, FALSE)
        \/ \E st \in {200, 401}, k \in {"json", "garbage"} :
                Respond(c, st, "application/json", k)
        \/ ReadJson(c)
        \/ ConnectFail(c)
        \/ Cancel(c)

InitConcurrent == Init /\ _app_id = <<"k", "1">> /\ _base = USD

SpecConcurrent == InitConcurrent /\ [][NextConcurrent]_vars

----------------------------------------------------------------------------
(* Properties *)

\* The endpoints whose coroutines take base, symbols and show_alternative.
RateOps == {"latest", "historical", "time_series", "ohlc"}

\* The calls that have issued their request.
Issued == {c \in Calls : pc[c] # "idle"}

\* The GETs call c has put on the network.
GetsOf(c) == {i \in DOMAIN log : log[i].conn = session[c]}

\* C1: in every request issued, a parameter that was the bool True is sent
\* as the text "true", one that was False as "false", every other value
\* (a str, a number, 0 and 1 included) is sent as it was, no key is added
\* or lost, and show_alternative of latest, historical, time_series and ohlc
\* is sent as "true" or "false" according to the argument.
C1_BooleansEncoded ==
    \A c \in Issued :
        LET q == request[c].query_params
            sent == log[CHOOSE i \in GetsOf(c) : TRUE].params
        IN  /\ DOMAIN sent = DOMAIN q \cup {"app_id"}
            /\ \A k \in DOMAIN q :
                /\ q[k] = Bool(TRUE) => sent[k] = Str(TrueText)
                /\ q[k] = Bool(FALSE) => sent[k] = Str(FalseText)
                /\ q[k].t # "bool" => sent[k] = q[k]
            /\ \A k \in DOMAIN sent : sent[k].t # "bool"
            /\ call[c].op \in RateOps =>
                /\ "show_alternative" \in DOMAIN sent
                /\ sent["show_alternative"] =
                      IF call[c].show_alternative THEN Str(TrueText) ELSE Str(FalseText)

C1_Witness ==
    \E c \in Issued :
        /\ call[c].op = "ohlc"
        /\ call[c].show_alternative = TRUE
        /\ log[1].params["show_alternative"] = Str(<<"t", "r", "u", "e">>)
        /\ log[1].params["period"] = Str(<<"1", "d">>)

\* C2 as stated: in latest, historical, time_series and ohlc the base sent is
\* the client's default when base is not supplied (None), and the supplied
\* value whenever a base is supplied.
C2_BaseDefaultOrSupplied ==
    \A c \in Issued :
        call[c].op \in RateOps =>
            request[c].params["base"] =
                IF call[c].base = None THEN Str(_base) ELSE call[c].base

\* C2 amended: the base sent is the client's default when base is None or
\* the empty string, and the supplied value when a non-empty base is supplied.
C2_BaseDefaultOrNonEmpty ==
    \A c \in Issued :
        call[c].op \in RateOps =>
            /\ "base" \in DOMAIN request[c].params
            /\ request[c].params["base"] =
                IF call[c].base = None \/ call[c].base = Str(<<>>)
                THEN Str(_base) ELSE call[c].base
            /\ request[c].params = log[CHOOSE i \in GetsOf(c) : TRUE].params

C2_Witness ==
    \E c \in Issued :
        /\ call[c].op = "time_series"
        /\ call[c].base = Str(EUR)
        /\ _base = USD
        /\ log[1].params["base"] = Str(<<"E", "U", "R">>)

\* The length of the text that joining parts[1..n] with one-character
\* separators gives.
RECURSIVE JoinedLen(_, _)
JoinedLen(parts, n) ==
    IF n = 0 THEN 0
    ELSE JoinedLen(parts, n - 1) + Len(parts[n]) + (IF n > 1 THEN 1 ELSE 0)

\* text is the codes in their order, a comma between neighbours and nowhere
\* else.
CommaJoined(text, codes) ==
    /\ Len(text) = JoinedLen(codes, Len(codes))
    /\ \A i \in DOMAIN codes :
        LET last == JoinedLen(codes, i)
        IN  /\ SubSeq(text, last - Len(codes[i]) + 1, last) = codes[i]
            /\ i < Len(codes) => text[last + 1] = ","

\* C3: in latest, historical, time_series and ohlc a supplied symbols
\* sequence is sent as the one parameter symbols, the codes joined by commas
\* in their order; the empty sequence is sent as symbols with the empty
\* text; symbols None sends no symbols parameter.
C3_SymbolsJoined ==
    \A c \in Issued :
        call[c].op \in RateOps =>
            LET sent == log[CHOOSE i \in GetsOf(c) : TRUE].params
            IN  IF call[c].symbols = None
                THEN "symbols" \notin DOMAIN sent
                ELSE /\ "symbols" \in DOMAIN sent
                     /\ sent["symbols"].t = "str"
                     /\ CommaJoined(sent["symbols"].v, call[c].symbols.v)
                     /\ call[c].symbols.v = <<>> => sent["symbols"] = Str(<<>>)

C3_Witness ==
    \E c \in Issued :
        /\ call[c].op = "historical"
        /\ call[c].symbols = List(<<USD, EUR>>)
        /\ log[1].params["symbols"] = Str(<<"U", "S", "D", ",", "E", "U", "R">>)

\* The number a text of decimal digits writes.
RECURSIVE Decimal(_)
Decimal(text) ==
    IF text = <<>> THEN 0
    ELSE 10 * Decimal(SubSeq(text, 1, Len(text) - 1))
            + (CHOOSE d \in 0 .. 9 : DigitChar(d) = text[Len(text)])

\* seg is YYYY-MM-DD for date d.
IsoDate(seg, d) ==
    /\ Len(seg) = 10
    /\ seg[5] = "-" /\ seg[8] = "-"
    /\ \A i \in {1, 2, 3, 4, 6, 7, 9, 10} : \E n \in 0 .. 9 : seg[i] = DigitChar(n)
    /\ Decimal(SubSeq(seg, 1, 4)) = d.year
    /\ Decimal(SubSeq(seg, 6, 7)) = d.month
    /\ Decimal(SubSeq(seg, 9, 10)) = d.day

\* C4: historical(d, ...) issues its request to the historical endpoint with
\* d as YYYY-MM-DD as the single path segment, and no query parameter of the
\* request is named date.
C4_HistoricalDateInPath ==
    \A c \in Issued :
        call[c].op = "historical" =>
            LET get == log[CHOOSE i \in GetsOf(c) : TRUE]
            IN  /\ request[c].endpoint = "historical"
                /\ request[c].path_params.t = "list"
                /\ Len(request[c].path_params.v) = 1
                /\ IsoDate(request[c].path_params.v[1], call[c].date)
                /\ get.url.template = "historical"
                /\ get.url.segments = request[c].path_params.v
                /\ "date" \notin DOMAIN get.params
                /\ "date" \notin DOMAIN request[c].query_params

C4_Witness ==
    \E c \in Issued :
        /\ call[c].op = "historical"
        /\ call[c].date = [year |-> 987, month |-> 12, day |-> 5]
        /\ log[1].url.segments = <<<<"0", "9", "8", "7", "-", "1", "2", "-", "0", "5">>>>

\* C5: a response whose status is 400 or more ends the call with a
\* ClientResponseError carrying that status, whatever its body and content
\* type, and the call never gets to decode it.
C5_FailureStatusRaises ==
    \A c \in Calls :
        (response[c] # NoResponse /\ response[c].status >= 400) =>
            /\ pc[c] = "done"
            /\ result[c] = [kind |-> "raise",
                            error |-> [type |-> "ClientResponseError",
                                       status |-> response[c].status]]

C5_Witness ==
    \E c \in Calls :
        /\ response[c] # NoResponse
        /\ response[c].status = 401
        /\ response[c].body.k = "json"
        /\ response[c].ctype = "application/json"
        /\ result[c].kind = "raise"
        /\ result[c].error.status = 401

\* C6: every GET any public operation puts on the network carries app_id,
\* with the client's application identifier as its value, and every call
\* that has started has put its GET on the network.
C6_AppIdAlwaysSent ==
    /\ \A i \in DOMAIN log :
        /\ "app_id" \in DOMAIN log[i].params
        /\ log[i].params["app_id"] = Str(_app_id)
    /\ \A c \in Issued : GetsOf(c) # {}

C6_Witness ==
    \E c \in Issued :
        /\ call[c].op = "usage"
        /\ _app_id = <<"k", "2">>
        /\ log[1].params = [app_id |-> Str(<<"k", "2">>)]

\* C7: with any number of calls in flight, under every interleaving, each
\* call ends with the response to its own request: the response it holds
\* came on its own session's connection, a returned document answers the
\* URL the call itself requested, a status error carries the status of its
\* own response, and no two calls have a session in common.
C7_OwnResponse ==
    \A c \in Issued :
        /\ \A d \in Issued : d # c => session[d] # session[c]
        /\ response[c] # NoResponse => response[c].conn = session[c]
        /\ (result[c].kind = "return" /\ result[c].value # None) =>
            /\ result[c].value.v.conn = session[c]
            /\ result[c].value.v.answers = request[c].url
        /\ (result[c].kind = "raise" /\ result[c].error.type = "ClientResponseError") =>
            /\ response[c] # NoResponse
            /\ result[c].error.status = response[c].status

C7_Witness ==
    \E c, d \in Calls :
        /\ call[c].op = "usage" /\ call[d].op = "latest"
        /\ session[d] < session[c]
        /\ result[c].kind = "return"
        /\ result[c].value.v.answers.template = "usage"
        /\ result[d].kind = "raise"
        /\ result[d].error = [type |-> "ClientResponseError", status |-> 401]

\* C8: every call has a session of its own, open while the call is
\* suspended and closed once the call has ended, however it ended (a
\* returned document, a status error, a connectivity error, a decode error,
\* a cancellation); a cancelled call has no return value; a session is open
\* only while the call that created it is in flight.
C8_SessionReleased ==
    /\ \A c \in Issued :
        /\ session[c] \in DOMAIN sessions
        /\ \A d \in Issued : d # c => session[d] # session[c]
        /\ pc[c] \in {"get", "json"} => sessions[session[c]] = "open"
        /\ pc[c] = "done" =>
            /\ sessions[session[c]] = "closed"
            /\ result[c].kind \in {"return", "raise"}
    /\ \A s \in DOMAIN sessions :
        sessions[s] = "open" => \E c \in Issued : session[c] = s /\ pc[c] # "done"

C8_Witness ==
    \E c, d \in Calls :
        /\ pc[c] = "done"
        /\ response[c] # NoResponse /\ response[c].status = 200
        /\ result[c] = [kind |-> "raise", error |-> [type |-> "CancelledError"]]
        /\ sessions[session[c]] = "closed"
        /\ pc[d] = "done"
        /\ result[d] = [kind |-> "raise", error |-> [type |-> "JSONDecodeError"]]
        /\ sessions[session[d]] = "closed"

C10_InvalidBodyRaises ==
    \A c \in Calls :
        (pc[c] = "done" /\ response[c] # NoResponse /\ response[c].status < 400
            /\ response[c].body.k # "json") =>
                /\ result[c].kind = "raise"
                /\ result[c].error.type # "ClientResponseError"

====
